---- MODULE Spec2Model ----
(***************************************************************************)
(* A model of libkoki's src/labelling.c: thresholding an image and         *)
(* labelling its 8-connected dark regions in one raster scan               *)
(* (koki_label_image), followed by the statistics scan that fills the      *)
(* clip regions (mass and bounding box).                                   *)
(*                                                                         *)
(* One behaviour is one call of koki_label_image on one image.  The        *)
(* label buffer `data` is a function on 0 .. (w+2)*(h+2)-1, exactly the    *)
(* flat uint16_t array of the code; `aliases` and `clips` are the two      *)
(* GArrays (1-based sequences here, 0-based in the code).                  *)
(***************************************************************************)
EXTENDS Integers, Sequences, FiniteSets, TLC

\* ---------------------------------------------------------------- bounds
MaxW == 5
MaxH == 3

\* ------------------------------------------------------- program constants
\* channel indices of an IplImage pixel
R == 0
G == 1
B == 2

\* uint16_t / int16_t arithmetic
Two16 == 65536
Two15 == 32768

\* clip.min.x = clip.min.y = 0xFFFF
MinInit == 65535

ToUint16(v) == v % Two16
ToInt16(v) == IF (v % Two16) >= Two15 THEN (v % Two16) - Two16 ELSE v % Two16

\* ------------------------------------------------------------ the inputs
\* A cell of `data` that malloc returned and nobody has written yet.
Undef == -1

\* What a read of an indeterminate uint16_t may produce.
Garbage == {0, 1, 65535}

\* Pixels (R, G, B): channel sums 382 and 383, either side of the threshold.
PixVals == { <<127, 127, 128>>, <<127, 128, 128>> }

\* The threshold argument in halves (1 is the float 0.5).
Thresholds == {1}

Pixels(wd, ht) == (0 .. wd - 1) \X (0 .. ht - 1)

\* the image of width wd and height ht with pixel values p
Image(wd, ht, p) == [width |-> wd, height |-> ht, pix |-> p]

VARIABLES
    image,          \* the IplImage argument
    threshold,      \* the threshold argument, in halves
    pc,             \* position in koki_label_image
    threshold_x_3,  \* local of koki_label_image
    w, h,           \* labelled_image->w, ->h
    data,           \* labelled_image->data
    aliases,        \* labelled_image->aliases
    clips,          \* labelled_image->clips
    row, col,       \* the loop counters of the running scan
    max_alias,      \* local of koki_label_image
    rd,             \* indices of data read by the last step
    wr,             \* indices of data written by the last step
    last,           \* the last step taken: the branch of label_pixel, or the
                    \* name of the step
    rewritten       \* the alias slots whose value the last step changed

vars == << image, threshold, pc, threshold_x_3, w, h, data, aliases, clips,
           row, col, max_alias, rd, wr, last, rewritten >>

\* ------------------------------------------------------------- accessors
\* KOKI_IPLIMAGE_ELEM(img, x, y, rgb)
KOKI_IPLIMAGE_ELEM(img, x, y, rgb) == img.pix[<<x, y>>][rgb + 1]

\* index of KOKI_LABELLED_IMAGE_LABEL(limg, x, y) in data
KOKI_LABELLED_IMAGE_LABEL(wd, x, y) == (y + 1) * (wd + 2) + (x + 1)

\* g_array_index(array, uint16_t, i) ; g is what an out-of-range read yields
g_array_index(arr, i, g) == IF i + 1 \in DOMAIN arr THEN arr[i + 1] ELSE g

\* a read of data[i]; g is what an indeterminate or out-of-range read yields
ReadData(d, i, g) == IF i \in DOMAIN d /\ d[i] # Undef THEN d[i] ELSE g

\* uint16_t threshold_x_3 = (255 * threshold) * 3
ThresholdX3(t) == ToUint16(((255 * t) * 3) \div 2)

\* variant: the comparison is >= instead of >
above_threshold_GE(img, x, y, thr) ==
    (KOKI_IPLIMAGE_ELEM(img, x, y, R) + KOKI_IPLIMAGE_ELEM(img, x, y, G)
        + KOKI_IPLIMAGE_ELEM(img, x, y, B)) >= thr

above_threshold(img, x, y, thr) ==
    (KOKI_IPLIMAGE_ELEM(img, x, y, R) + KOKI_IPLIMAGE_ELEM(img, x, y, G)
        + KOKI_IPLIMAGE_ELEM(img, x, y, B)) > thr

\* ----------------------------------------------------------- construction
\* variant: the first loop stops at i < w+1
Perimeter_ShortRow(wd, ht) ==
    { i : i \in 0 .. wd }
    \cup { (ht + 1) * (wd + 2) + i : i \in 0 .. wd }
    \cup { (wd + 2) * i : i \in 1 .. ht }
    \cup { (wd + 2) * i + wd + 1 : i \in 1 .. ht }

\* variant: the second loop zeroes the right column only
Perimeter_NoLeftCol(wd, ht) ==
    { i : i \in 0 .. wd + 1 }
    \cup { (ht + 1) * (wd + 2) + i : i \in 0 .. wd + 1 }
    \cup { (wd + 2) * i + wd + 1 : i \in 1 .. ht }

\* The perimeter cells the two loops of koki_labelled_image_new zero.
Perimeter(wd, ht) ==
    { i : i \in 0 .. wd + 1 }
    \cup { (ht + 1) * (wd + 2) + i : i \in 0 .. wd + 1 }
    \cup { (wd + 2) * i : i \in 1 .. ht }
    \cup { (wd + 2) * i + wd + 1 : i \in 1 .. ht }

\* data after koki_labelled_image_new(wd, ht): perimeter 0, the rest as malloc
\* left it.
NewData(wd, ht) ==
    [ i \in 0 .. (wd + 2) * (ht + 2) - 1 |->
        IF i \in Perimeter(wd, ht) THEN 0 ELSE Undef ]

\* ------------------------------------------------------------- set_label
\* variant: the label is stored as given, not looked up in the alias array
set_label_Raw(d, al, wd, x, y, label) ==
    LET i == KOKI_LABELLED_IMAGE_LABEL(wd, x, y) IN
    IF label = 0
    THEN [ok |-> TRUE, data |-> [d EXCEPT ![i] = 0], wr |-> {i}]
    ELSE IF Len(al) > label - 1
         THEN [ok |-> TRUE, data |-> [d EXCEPT ![i] = label], wr |-> {i}]
         ELSE [ok |-> FALSE, data |-> d, wr |-> {}]

\* The outcome of set_label: ok = FALSE when its assertion fails.
set_label(d, al, wd, x, y, label) ==
    LET i == KOKI_LABELLED_IMAGE_LABEL(wd, x, y) IN
    IF label = 0
    THEN [ok |-> TRUE, data |-> [d EXCEPT ![i] = 0], wr |-> {i}]
    ELSE IF Len(al) > label - 1
         THEN [ok |-> TRUE,
               data |-> [d EXCEPT ![i] = g_array_index(al, label - 1, 0)],
               wr |-> {i}]
         ELSE [ok |-> FALSE, data |-> d, wr |-> {}]

\* --------------------------------------------------- get_connected_label
\* variant: W reads the cell to the east
ConnectedIdx_EastForWest(wd, x, y, direction) ==
    CASE direction = "N"  -> (y + 1 - 1) * (wd + 2) + (x + 1)
      [] direction = "NE" -> (y + 1 - 1) * (wd + 2) + (x + 1 + 1)
      [] direction = "E"  -> (y + 1) * (wd + 2) + (x + 1 + 1)
      [] direction = "SE" -> (y + 1 + 1) * (wd + 2) + (x + 1 + 1)
      [] direction = "S"  -> (y + 1 + 1) * (wd + 2) + (x + 1)
      [] direction = "SW" -> (y + 1 + 1) * (wd + 2) + (x + 1 - 1)
      [] direction = "W"  -> (y + 1) * (wd + 2) + (x + 1 + 1)
      [] direction = "NW" -> (y + 1 - 1) * (wd + 2) + (x + 1 - 1)

\* index of data read by get_connected_label(labelled_image, x, y, direction)
ConnectedIdx(wd, x, y, direction) ==
    CASE direction = "N"  -> (y + 1 - 1) * (wd + 2) + (x + 1)
      [] direction = "NE" -> (y + 1 - 1) * (wd + 2) + (x + 1 + 1)
      [] direction = "E"  -> (y + 1) * (wd + 2) + (x + 1 + 1)
      [] direction = "SE" -> (y + 1 + 1) * (wd + 2) + (x + 1 + 1)
      [] direction = "S"  -> (y + 1 + 1) * (wd + 2) + (x + 1)
      [] direction = "SW" -> (y + 1 + 1) * (wd + 2) + (x + 1 - 1)
      [] direction = "W"  -> (y + 1) * (wd + 2) + (x + 1 - 1)
      [] direction = "NW" -> (y + 1 - 1) * (wd + 2) + (x + 1 - 1)

get_connected_label(d, wd, x, y, direction, g) ==
    ReadData(d, ConnectedIdx(wd, x, y, direction), g)

\* ------------------------------------------------------------ label_pixel
\* variant: only the slot of label_max itself is redirected
MergeAliases_OnlySlot(al, label_min, label_max) ==
    [ i \in 1 .. Len(al) |->
        IF i = label_max THEN ToUint16(label_min) ELSE al[i] ]

\* variant: the class of label_min is moved to label_max
MergeAliases_Swapped(al, label_min, label_max) ==
    [ i \in 1 .. Len(al) |->
        IF al[i] = label_min THEN ToUint16(label_max) ELSE al[i] ]

\* variant: the alias array is left as it was
MergeAliases_None(al, label_min, label_max) == al

\* "maintain lowest label for all aliases": the loop over the alias array
MergeAliases(al, label_min, label_max) ==
    [ i \in 1 .. Len(al) |->
        IF al[i] = label_max THEN ToUint16(label_min) ELSE al[i] ]

\* variant: the new slot holds the old length
AppendAlias_OffByOne(al) == Append(al, ToUint16(Len(al)))

\* "a new region has been found": the appended array
AppendAlias(al) == Append(al, ToUint16(Len(al) + 1))

\* the result of one branch of label_pixel: sl is what its set_label did
PixelResult(sl, al, reads, branch) ==
    [ok |-> sl.ok, data |-> sl.data, aliases |-> al, rd |-> reads, wr |-> sl.wr,
     branch |-> branch]

\* variant: the North-East branch inherits NE without looking at W and NW
LabelFromNE_NoMerge(d, al, wd, x, y, label_tmp, g) ==
    PixelResult(set_label(d, al, wd, x, y, label_tmp), al,
                { ConnectedIdx(wd, x, y, dir) : dir \in {"N", "NE"} }, "NE")

\* variant: the lowest label is identified the wrong way round
LabelFromNE_MinMaxSwapped(d, al, wd, x, y, label_tmp, g) ==
    LET label_w  == ToInt16(get_connected_label(d, wd, x, y, "W", g))
        label_nw == ToInt16(get_connected_label(d, wd, x, y, "NW", g))
        reads    == { ConnectedIdx(wd, x, y, dir) : dir \in {"N", "NE", "W", "NW"} }
    IN
    IF label_w > 0 \/ label_nw > 0
    THEN LET l1 == ToInt16(g_array_index(al, label_tmp - 1, g))
             l2 == IF label_nw > 0
                   THEN ToInt16(g_array_index(al, label_nw - 1, g))
                   ELSE ToInt16(g_array_index(al, label_w - 1, g))
             label_min == IF l2 > l1 THEN l2 ELSE l1
             label_max == IF l2 > l1 THEN l1 ELSE l2
             sl == set_label(d, al, wd, x, y, ToUint16(label_min))
         IN PixelResult(sl,
                        IF sl.ok THEN MergeAliases(al, label_min, label_max) ELSE al,
                        reads, "NE_merge")
    ELSE PixelResult(set_label(d, al, wd, x, y, label_tmp), al, reads, "NE")

\* variant: in the merge case the pixel is given the NE label, not label_min
LabelFromNE_AssignNE(d, al, wd, x, y, label_tmp, g) ==
    LET label_w  == ToInt16(get_connected_label(d, wd, x, y, "W", g))
        label_nw == ToInt16(get_connected_label(d, wd, x, y, "NW", g))
        reads    == { ConnectedIdx(wd, x, y, dir) : dir \in {"N", "NE", "W", "NW"} }
    IN
    IF label_w > 0 \/ label_nw > 0
    THEN LET l1 == ToInt16(g_array_index(al, label_tmp - 1, g))
             l2 == IF label_nw > 0
                   THEN ToInt16(g_array_index(al, label_nw - 1, g))
                   ELSE ToInt16(g_array_index(al, label_w - 1, g))
             label_min == IF l2 < l1 THEN l2 ELSE l1
             label_max == IF l2 < l1 THEN l1 ELSE l2
             sl == set_label(d, al, wd, x, y, label_tmp)
         IN PixelResult(sl,
                        IF sl.ok THEN MergeAliases(al, label_min, label_max) ELSE al,
                        reads, "NE_merge")
    ELSE PixelResult(set_label(d, al, wd, x, y, label_tmp), al, reads, "NE")

\* the North-East branch of label_pixel (label_tmp is the NE label, > 0)
LabelFromNE(d, al, wd, x, y, label_tmp, g) ==
    LET label_w  == ToInt16(get_connected_label(d, wd, x, y, "W", g))
        label_nw == ToInt16(get_connected_label(d, wd, x, y, "NW", g))
        reads    == { ConnectedIdx(wd, x, y, dir) : dir \in {"N", "NE", "W", "NW"} }
    IN
    IF label_w > 0 \/ label_nw > 0
    THEN LET l1 == ToInt16(g_array_index(al, label_tmp - 1, g))
             l2 == IF label_nw > 0
                   THEN ToInt16(g_array_index(al, label_nw - 1, g))
                   ELSE ToInt16(g_array_index(al, label_w - 1, g))
             label_min == IF l2 < l1 THEN l2 ELSE l1
             label_max == IF l2 < l1 THEN l1 ELSE l2
             sl == set_label(d, al, wd, x, y, ToUint16(label_min))
         IN PixelResult(sl,
                        IF sl.ok THEN MergeAliases(al, label_min, label_max) ELSE al,
                        reads, "NE_merge")
    ELSE PixelResult(set_label(d, al, wd, x, y, label_tmp), al, reads, "NE")

label_pixel(img, d, al, wd, x, y, thr, g) ==
    LET idx(dir) == ConnectedIdx(wd, x, y, dir)
        n  == get_connected_label(d, wd, x, y, "N", g)
        ne == get_connected_label(d, wd, x, y, "NE", g)
        nw == get_connected_label(d, wd, x, y, "NW", g)
        we == get_connected_label(d, wd, x, y, "W", g)
    IN
    IF above_threshold(img, x, y, thr)
    THEN PixelResult(set_label(d, al, wd, x, y, 0), al, {}, "background")
    ELSE IF n > 0
    THEN PixelResult(set_label(d, al, wd, x, y, n), al, {idx("N")}, "N")
    ELSE IF ne > 0
    THEN LabelFromNE(d, al, wd, x, y, ne, g)
    ELSE IF nw > 0
    THEN PixelResult(set_label(d, al, wd, x, y, nw), al,
                     {idx("N"), idx("NE"), idx("NW")}, "NW")
    ELSE IF we > 0
    THEN PixelResult(set_label(d, al, wd, x, y, we), al,
                     {idx("N"), idx("NE"), idx("NW"), idx("W")}, "W")
    ELSE LET label_tmp == ToUint16(Len(al) + 1)
             al2 == AppendAlias(al)
         IN PixelResult(set_label(d, al2, wd, x, y, label_tmp), al2,
                        {idx("N"), idx("NE"), idx("NW"), idx("W")}, "new_region")

\* the indeterminate values a step at (x, y) may meet: one choice if every
\* cell it can read is determinate
GarbageAt(d, wd, x, y) ==
    IF \A dir \in {"N", "NE", "NW", "W"} :
          LET i == ConnectedIdx(wd, x, y, dir) IN i \in DOMAIN d /\ d[i] # Undef
    THEN {0} ELSE Garbage

\* ------------------------------------------------------- statistics pass
\* variant: the number of aliases instead of the largest alias
LargestAlias_Len(al) == Len(al)

\* "find largest alias"
LargestAlias(al) ==
    LET RECURSIVE Scan(_, _)
        Scan(i, m) == IF i > Len(al) THEN m
                      ELSE Scan(i + 1, IF al[i] > m THEN al[i] ELSE m)
    IN Scan(1, 0)

\* variant: min starts at 0 like max
EmptyClip_MinZero == [mass |-> 0, max |-> [x |-> 0, y |-> 0],
                      min |-> [x |-> 0, y |-> 0]]

\* "init clips"
EmptyClip == [mass |-> 0, max |-> [x |-> 0, y |-> 0],
              min |-> [x |-> MinInit, y |-> MinInit]]

\* variant: one clip fewer is appended
InitClips_OneShort(cl, m) == cl \o [ i \in 1 .. m - 1 |-> EmptyClip ]

InitClips(cl, m) == cl \o [ i \in 1 .. m |-> EmptyClip ]

\* variant: min is only looked at when max did not move
UpdateClip_ElseIf(clip, x, y) ==
    [mass |-> clip.mass + 1,
     max |-> [x |-> IF x > clip.max.x THEN x ELSE clip.max.x,
              y |-> IF y > clip.max.y THEN y ELSE clip.max.y],
     min |-> [x |-> IF x <= clip.max.x /\ x < clip.min.x THEN x ELSE clip.min.x,
              y |-> IF y <= clip.max.y /\ y < clip.min.y THEN y ELSE clip.min.y]]

\* the body of the "gather stats" loop on one clip
UpdateClip(clip, x, y) ==
    [mass |-> clip.mass + 1,
     max |-> [x |-> IF x > clip.max.x THEN x ELSE clip.max.x,
              y |-> IF y > clip.max.y THEN y ELSE clip.max.y],
     min |-> [x |-> IF x < clip.min.x THEN x ELSE clip.min.x,
              y |-> IF y < clip.min.y THEN y ELSE clip.min.y]]

\* variant: the updated copy of the clip is not stored back
GatherPixel_NoWriteBack(d, al, cl, wd, x, y, g) == cl

\* one iteration of the "gather stats" loop at (x, y)
GatherPixel(d, al, cl, wd, x, y, g) ==
    LET label == ReadData(d, KOKI_LABELLED_IMAGE_LABEL(wd, x, y), g) IN
    IF label = 0 THEN cl
    ELSE LET alias == g_array_index(al, label - 1, g) IN
         IF alias - 1 + 1 \in DOMAIN cl
         THEN [cl EXCEPT ![alias - 1 + 1] = UpdateClip(cl[alias - 1 + 1], x, y)]
         ELSE cl

\* ----------------------------------------------------------------- steps
Init ==
    /\ \E wd \in 0 .. MaxW, ht \in 0 .. MaxH :
          \E p \in [Pixels(wd, ht) -> PixVals] : image = Image(wd, ht, p)
    /\ threshold \in Thresholds
    /\ pc = "new"
    /\ threshold_x_3 = ThresholdX3(threshold)
    /\ w = 0
    /\ h = 0
    /\ data = << >>
    /\ aliases = << >>
    /\ clips = << >>
    /\ row = 0
    /\ col = 0
    /\ max_alias = 0
    /\ rd = {}
    /\ wr = {}
    /\ last = "init"
    /\ rewritten = {}

\* koki_labelled_image_new(image->width, image->height)
koki_labelled_image_new ==
    /\ pc = "new"
    /\ w' = image.width
    /\ h' = image.height
    /\ data' = NewData(image.width, image.height)
    /\ aliases' = << >>
    /\ clips' = << >>
    /\ wr' = Perimeter(image.width, image.height)
    /\ rd' = {}
    /\ last' = "koki_labelled_image_new"
    /\ rewritten' = {}
    /\ pc' = "label"
    /\ UNCHANGED << image, threshold, threshold_x_3, row, col, max_alias >>

\* the counters after one iteration of "for row { for col { ... } }"
NextCol(c, wd) == IF c + 1 < wd THEN c + 1 ELSE 0
NextRow(r, c, wd) == IF c + 1 < wd THEN r ELSE r + 1

\* one iteration of "label all the pixels"
LabelStep ==
    /\ pc = "label"
    /\ row < image.height
    /\ col < image.width
    /\ \E g \in GarbageAt(data, w, col, row) :
         LET res == label_pixel(image, data, aliases, w, col, row,
                                threshold_x_3, g) IN
         /\ data' = res.data
         /\ aliases' = res.aliases
         /\ rd' = res.rd
         /\ wr' = res.wr
         /\ last' = res.branch
         /\ rewritten' = { i \in DOMAIN aliases : res.aliases[i] # aliases[i] }
         /\ pc' = IF res.ok THEN "label" ELSE "abort"
    /\ col' = NextCol(col, image.width)
    /\ row' = NextRow(row, col, image.width)
    /\ UNCHANGED << image, threshold, threshold_x_3, w, h, clips, max_alias >>

\* variant: the outer loop runs while row < height - 1
FindLargestAlias_Early ==
    /\ pc = "label"
    /\ (row + 1 >= image.height \/ image.width = 0)
    /\ max_alias' = LargestAlias(aliases)
    /\ pc' = "init_clips"
    /\ rd' = {}
    /\ wr' = {}
    /\ last' = "find_largest_alias"
    /\ rewritten' = {}
    /\ UNCHANGED << image, threshold, threshold_x_3, w, h, data, aliases,
                    clips, row, col >>

\* the labelling loops are over: "find largest alias"
FindLargestAlias ==
    /\ pc = "label"
    /\ (row >= image.height \/ image.width = 0)
    /\ max_alias' = LargestAlias(aliases)
    /\ pc' = "init_clips"
    /\ rd' = {}
    /\ wr' = {}
    /\ last' = "find_largest_alias"
    /\ rewritten' = {}
    /\ UNCHANGED << image, threshold, threshold_x_3, w, h, data, aliases,
                    clips, row, col >>

\* "init clips"
InitClipsStep ==
    /\ pc = "init_clips"
    /\ clips' = InitClips(clips, max_alias)
    /\ row' = 0
    /\ col' = 0
    /\ pc' = "gather"
    /\ last' = "init_clips"
    /\ UNCHANGED << image, threshold, threshold_x_3, w, h, data, aliases,
                    max_alias, rd, wr, rewritten >>

\* one iteration of "gather stats" (row is y, col is x)
GatherStep ==
    /\ pc = "gather"
    /\ row < image.height
    /\ col < image.width
    /\ \E g \in (IF data[KOKI_LABELLED_IMAGE_LABEL(w, col, row)] # Undef
                 THEN {0} ELSE Garbage) :
         clips' = GatherPixel(data, aliases, clips, w, col, row, g)
    /\ rd' = { KOKI_LABELLED_IMAGE_LABEL(w, col, row) }
    /\ wr' = {}
    /\ last' = "gather"
    /\ col' = NextCol(col, image.width)
    /\ row' = NextRow(row, col, image.width)
    /\ UNCHANGED << image, threshold, pc, threshold_x_3, w, h, data, aliases,
                    max_alias, rewritten >>

\* "return labelled_image"
Return ==
    /\ pc = "gather"
    /\ (row >= image.height \/ image.width = 0)
    /\ pc' = "done"
    /\ rd' = {}
    /\ last' = "return"
    /\ UNCHANGED << image, threshold, threshold_x_3, w, h, data, aliases,
                    clips, row, col, max_alias, wr, rewritten >>

Next ==
    \/ koki_labelled_image_new
    \/ LabelStep
    \/ FindLargestAlias
    \/ InitClipsStep
    \/ GatherStep
    \/ Return

Spec == Init /\ [][Next]_vars

\* ======================================================================
\* Properties
\* ======================================================================
\* the pixels of the image and the ground truth they are compared with
Pix == Pixels(image.width, image.height)

ChannelSum(p) == image.pix[p][1] + image.pix[p][2] + image.pix[p][3]

IsForeground(p) == ChannelSum(p) <= threshold_x_3

FG == { p \in Pix : IsForeground(p) }

\* the stored label of pixel p
CellOf(p) == data[KOKI_LABELLED_IMAGE_LABEL(w, p[1], p[2])]

\* the stored label of p resolved through the alias table (0 if it cannot be)
FinalId(p) ==
    IF CellOf(p) \in 1 .. Len(aliases) THEN aliases[CellOf(p)] ELSE 0

\* the labelling loops have run to their end
LabellingOver == pc \in {"init_clips", "gather", "done"}

\* p has been visited by the labelling pass
Visited(p) ==
    \/ LabellingOver
    \/ pc = "label" /\ (p[2] < row \/ (p[2] = row /\ p[1] < col))

Abs(n) == IF n < 0 THEN -n ELSE n

Adjacent8(p, q) == p # q /\ Abs(p[1] - q[1]) <= 1 /\ Abs(p[2] - q[2]) <= 1

\* flood fill over foreground pixels, from the set S
RECURSIVE Flood(_)
Flood(S) ==
    LET T == S \cup { q \in FG : \E p \in S : Adjacent8(p, q) } IN
    IF T = S THEN S ELSE Flood(T)

\* the pixels of the region with canonical id c
Region(c) == { p \in Pix : CellOf(p) # 0 /\ FinalId(p) = c }

RECURSIVE SumMass(_)
SumMass(cl) == IF cl = << >> THEN 0 ELSE Head(cl).mass + SumMass(Tail(cl))

\* C1: partition correctness.  When koki_label_image has completed, two
\* foreground pixels have the same final canonical id (stored label resolved
\* through the alias table) exactly when a flood fill over 8-adjacent
\* foreground pixels joins them.
PartitionCorrect ==
    pc = "done" =>
        \A p \in FG :
            /\ CellOf(p) \in 1 .. Len(aliases)
            /\ \A q \in Flood({p}) : FinalId(q) = FinalId(p)
            /\ \A q \in FG \ Flood({p}) : FinalId(q) # FinalId(p)

\* the diagonal pair (0,0), (1,1) alone ends as one region of mass 2, beside a
\* second region
DiagonalPairMerged ==
    /\ pc = "done"
    /\ image.width >= 2 /\ image.height >= 2
    /\ Flood({<<0, 0>>}) = { <<0, 0>>, <<1, 1>> }
    /\ <<0, 0>> \in FG
    /\ FinalId(<<0, 0>>) = FinalId(<<1, 1>>)
    /\ clips[FinalId(<<0, 0>>)].mass = 2
    /\ \E q \in FG : FinalId(q) # FinalId(<<0, 0>>)

\* C2 as stated: when the labelling pass has finished every non-zero stored
\* label is its own alias, so re-resolving it changes nothing.
GridHoldsCanonicalIds ==
    LabellingOver =>
        \A p \in Pix : CellOf(p) # 0 => FinalId(p) = CellOf(p)

\* C2 amended: when the labelling pass has finished every stored label is 0
\* or a provisional id of the table whose alias is canonical and not larger
\* than the stored label; the stored label itself may have been merged away.
GridHoldsResolvableIds ==
    LabellingOver =>
        \A p \in Pix :
            \/ CellOf(p) = 0
            \/ /\ CellOf(p) \in 1 .. Len(aliases)
               /\ aliases[CellOf(p)] \in 1 .. CellOf(p)
               /\ aliases[aliases[CellOf(p)]] = aliases[CellOf(p)]

\* a finished grid with a cell whose label was merged away after the write
StaleCellAfterLabelling ==
    /\ pc = "gather"
    /\ \E p \in Pix : CellOf(p) # 0 /\ FinalId(p) # CellOf(p)

\* C3: the alias table is flat in every state: each slot holds an id of the
\* table, and that id is its own alias.
AliasTableFlat ==
    \A i \in 1 .. Len(aliases) :
        /\ aliases[i] \in 1 .. Len(aliases)
        /\ aliases[aliases[i]] = aliases[i]

\* a merge has just moved a class of several provisional ids to a lower id
MergedClassOfSeveralSlots ==
    /\ last = "NE_merge"
    /\ Cardinality(rewritten) >= 2
    /\ \A i \in rewritten : aliases[i] < i /\ aliases[aliases[i]] = aliases[i]

\* C4: a visited pixel's cell is 0 exactly when its channel sum exceeds
\* threshold_x_3; as the classification is fixed, the zero/non-zero status of
\* a visited cell never changes.
BackgroundInvariant ==
    \A p \in Pix : Visited(p) => (CellOf(p) = 0 <=> ChannelSum(p) > threshold_x_3)

\* a finished grid with a background cell and a labelled cell
BothClassesLabelled ==
    /\ pc = "done"
    /\ \E p, q \in Pix : /\ ChannelSum(p) > threshold_x_3 /\ CellOf(p) = 0
                         /\ ChannelSum(q) <= threshold_x_3 /\ CellOf(q) > 0

\* C5: mass conservation: on completion the masses of all clips add up to the
\* number of foreground pixels.
MassConservation ==
    pc = "done" => SumMass(clips) = Cardinality(FG)

\* a finished run with two regions of different mass
TwoRegionsCounted ==
    /\ pc = "done"
    /\ \E a, b \in 1 .. Len(clips) :
          clips[a].mass > 0 /\ clips[b].mass > clips[a].mass

\* the regions that have a record with pixels in it
CountedIds == { c \in 1 .. Len(clips) : clips[c].mass > 0 }

\* C6: bounding box soundness and tightness.  On completion, for every clip
\* with mass > 0: min <= max on both axes, every pixel of its region lies
\* inside the box, and each of the four bounds is the coordinate of some pixel
\* of the region.
BoundingBoxTight ==
    pc = "done" =>
        \A c \in CountedIds :
            LET clip == clips[c] IN
            /\ clip.min.x <= clip.max.x
            /\ clip.min.y <= clip.max.y
            /\ \A p \in Region(c) :
                  /\ clip.min.x <= p[1] /\ p[1] <= clip.max.x
                  /\ clip.min.y <= p[2] /\ p[2] <= clip.max.y
            /\ \E p \in Region(c) : p[1] = clip.min.x
            /\ \E p \in Region(c) : p[2] = clip.min.y
            /\ \E p \in Region(c) : p[1] = clip.max.x
            /\ \E p \in Region(c) : p[2] = clip.max.y

\* a finished run with a region spanning several columns and rows, away from
\* the image's left column
WideRegionBoxed ==
    /\ pc = "done"
    /\ \E c \in CountedIds :
          /\ clips[c].min.x > 0
          /\ clips[c].min.x < clips[c].max.x
          /\ clips[c].min.y < clips[c].max.y
          /\ clips[c].mass = Cardinality(Region(c))

\* C7 as stated: on completion, for every clip with mass > 0, a pixel of the
\* region lies at min = (min.x, min.y) and a pixel of the region lies at
\* max = (max.x, max.y).
CornersAttained ==
    pc = "done" =>
        \A c \in CountedIds :
            /\ << clips[c].min.x, clips[c].min.y >> \in Region(c)
            /\ << clips[c].max.x, clips[c].max.y >> \in Region(c)

\* C7 amended: each corner is a pixel of the image, and each of its two
\* coordinates is attained by a pixel of the region, though not always by
\* the same pixel.
CornerCoordinatesAttained ==
    pc = "done" =>
        \A c \in CountedIds :
            /\ << clips[c].min.x, clips[c].min.y >> \in Pix
            /\ << clips[c].max.x, clips[c].max.y >> \in Pix
            /\ \E p, q \in Region(c) :
                  p[1] = clips[c].min.x /\ q[2] = clips[c].min.y
            /\ \E p, q \in Region(c) :
                  p[1] = clips[c].max.x /\ q[2] = clips[c].max.y

\* a finished run with a region neither of whose corners is one of its pixels
CornersOutsideRegion ==
    /\ pc = "done"
    /\ \E c \in CountedIds :
          /\ << clips[c].min.x, clips[c].min.y >> \notin Region(c)
          /\ << clips[c].max.x, clips[c].max.y >> \notin Region(c)

\* the highest id a new-region allocation has returned: ids are handed out
\* as 1, 2, ..., one per slot of the alias table
HighestAllocated == Len(aliases)

\* the canonical ids of the alias table
CanonicalIds == { c \in 1 .. Len(aliases) : aliases[c] = c }

SetMax(S) == IF S = {} THEN 0 ELSE CHOOSE m \in S : \A n \in S : n <= m

\* C8 as stated: the statistics pass allocates as many clips as ids were ever
\* allocated.
ClipsCountIsHighestAllocated ==
    pc \in {"gather", "done"} => Len(clips) = HighestAllocated

\* C8 amended: the statistics pass allocates as many clips as the highest
\* canonical id left in the finished alias table, which is at most the
\* highest id ever allocated; on completion a clip has mass 0 exactly when
\* its id was merged away, and ids above the highest canonical id have no
\* clip.
ClipsCountIsHighestCanonical ==
    pc \in {"gather", "done"} =>
        /\ Len(clips) = SetMax(CanonicalIds)
        /\ Len(clips) <= HighestAllocated
        /\ pc = "done" =>
              \A c \in 1 .. Len(clips) : clips[c].mass = 0 <=> c \notin CanonicalIds

\* a finished run whose highest allocated id was merged away and has no clip
HighestIdMergedAway ==
    /\ pc = "done"
    /\ Len(clips) < HighestAllocated
    /\ aliases[HighestAllocated] <= Len(clips)
    /\ clips[aliases[HighestAllocated]].mass > 0

\* the outermost ring of the padded grid
Ring ==
    { i \in 0 .. (w + 2) * (h + 2) - 1 :
        \/ i \div (w + 2) \in {0, h + 1}
        \/ i % (w + 2) \in {0, w + 1} }

\* C9: border sentinel.  From the return of koki_labelled_image_new on, the
\* buffer has (w+2)*(h+2) cells, every ring cell is 0, no step after the
\* construction writes a ring cell, and every cell a step reads lies inside
\* the buffer.
BorderSentinel ==
    pc # "new" =>
        /\ DOMAIN data = 0 .. (w + 2) * (h + 2) - 1
        /\ \A i \in Ring : data[i] = 0
        /\ last # "koki_labelled_image_new" => wr \cap Ring = {}
        /\ rd \subseteq DOMAIN data

\* the pixel in the image's top right corner has just been labelled after
\* reading three ring cells, and its own cell was the only one written
CornerPixelReadRing ==
    /\ pc = "label"
    /\ last = "new_region"
    /\ image.width >= 2
    /\ row = 1 /\ col = 0
    /\ Cardinality(rd \cap Ring) = 3
    /\ wr = { KOKI_LABELLED_IMAGE_LABEL(w, image.width - 1, 0) }

\* C10 as stated: with width = 0 or height = 0 the run never gets past the
\* constructor.
ZeroDimensionsRejected ==
    (image.width = 0 \/ image.height = 0) => pc = "new"

\* C10 amended: zero dimensions are not rejected.  With width = 0 or
\* height = 0 the constructor returns a grid that is all ring, every cell 0,
\* and the run goes on to completion with an empty alias table and no clips.
ZeroDimensionsAccepted ==
    ((image.width = 0 \/ image.height = 0) /\ pc # "new") =>
        /\ pc \in {"label", "init_clips", "gather", "done"}
        /\ w = image.width /\ h = image.height
        /\ DOMAIN data = 0 .. (w + 2) * (h + 2) - 1
        /\ \A i \in DOMAIN data : data[i] = 0
        /\ aliases = << >>
        /\ clips = << >>

\* a completed run on an image of width 0 and positive height
ZeroWidthRunCompleted ==
    /\ pc = "done"
    /\ image.width = 0
    /\ image.height > 0
    /\ Len(clips) = 0

\* the number of pixels the running scan has been through
ScanPos == row * image.width + col

\* the cell of the pixel the running scan is at
CurIdx == KOKI_LABELLED_IMAGE_LABEL(w, col, row)

\* the values of `last` that a call of label_pixel leaves
LabelBranches == {"background", "N", "NE", "NE_merge", "NW", "W", "new_region"}

\* C11: pass ordering.  Every step of the labelling pass writes the cell of
\* the pixel at the scan position and moves the position to the next pixel in
\* row-major order; the highest alias is computed only when the position has
\* passed the last pixel; while the labelling pass runs there are no clips
\* and no largest alias; and once the statistics pass has begun neither the
\* grid nor the alias table changes.
PassOrdering ==
    [][ /\ (pc = "label" /\ pc' = "label") =>
              /\ ScanPos < image.width * image.height
              /\ wr' = { CurIdx }
              /\ ScanPos' = ScanPos + 1
              /\ col' < image.width
              /\ clips' = << >> /\ max_alias' = 0
        /\ (pc = "label" /\ pc' # "label") =>
              /\ ScanPos = image.width * image.height
              /\ \A p \in Pix : CellOf(p) # Undef
              /\ clips = << >> /\ max_alias = 0
        /\ (clips' # clips \/ max_alias' # max_alias) =>
              pc' \in {"init_clips", "gather"}
        /\ pc \in {"init_clips", "gather", "done"} =>
              data' = data /\ aliases' = aliases
      ]_vars

\* the statistics pass is counting the pixels of the last row of a grid that
\* the labelling pass has filled
StatisticsAfterFullScan ==
    /\ pc = "gather"
    /\ last = "gather"
    /\ image.width >= 2 /\ image.height >= 2
    /\ row = image.height - 1 /\ col = 1
    /\ \A p \in Pix : CellOf(p) # Undef
    /\ \E c \in 1 .. Len(clips) : clips[c].mass >= 2
    /\ \E p \in FG : p[2] = image.height - 1

\* the scan stands on a pixel that the next step labels
AtPixel == pc = "label" /\ row < image.height /\ col < image.width

\* the cells north, north-east, north-west and west of the scan position
NorthIdx == CurIdx - (w + 2)
NorthEastIdx == CurIdx - (w + 2) + 1
NorthWestIdx == CurIdx - (w + 2) - 1
WestIdx == CurIdx - 1

\* the scan stands on a foreground pixel with North unlabelled, North-East
\* labelled, and West or North-West labelled
MergeCase ==
    /\ AtPixel
    /\ IsForeground(<<col, row>>)
    /\ data[NorthIdx] = 0
    /\ data[NorthEastIdx] > 0
    /\ (data[WestIdx] > 0 \/ data[NorthWestIdx] > 0)

\* C12: the merge step.  In the merge case, with l1 the alias of NE, l2 the
\* alias of NW if NW is labelled and of W otherwise, lo their minimum and hi
\* their maximum: after the step the pixel holds lo, every slot that held hi
\* holds lo, every other slot and the length are unchanged (nothing changes
\* when l1 = l2), and the NE pixel and the NW or W pixel resolve to one id.
MergeStep ==
    [][ MergeCase =>
          LET other == IF data[NorthWestIdx] > 0 THEN NorthWestIdx ELSE WestIdx
              l1 == aliases[data[NorthEastIdx]]
              l2 == aliases[data[other]]
              lo == IF l1 < l2 THEN l1 ELSE l2
              hi == IF l1 < l2 THEN l2 ELSE l1
          IN /\ pc' = "label"
             /\ data'[CurIdx] = lo
             /\ Len(aliases') = Len(aliases)
             /\ \A i \in 1 .. Len(aliases) :
                   aliases'[i] = (IF aliases[i] = hi THEN lo ELSE aliases[i])
             /\ l1 = l2 => aliases' = aliases
             /\ aliases'[data'[NorthEastIdx]] = lo
             /\ aliases'[data'[other]] = lo
      ]_vars

\* a merge has just joined the class of NE with the different class of W
\* under the lower id, which the pixel now holds
HourglassMerged ==
    /\ last = "NE_merge"
    /\ rewritten # {}
    /\ \E i \in wr :
          /\ data[i - (w + 2)] = 0
          /\ data[i - (w + 2) + 1] > 0
          /\ data[i - 1] > 0
          /\ data[i - 1] # data[i - (w + 2) + 1]
          /\ aliases[data[i - 1]] = data[i]
          /\ aliases[data[i - (w + 2) + 1]] = data[i]
          /\ \A j \in rewritten : aliases[j] = data[i] /\ data[i] < j

\* C13: write-time resolution.  Every non-zero value a step of the labelling
\* pass writes into a cell is a canonical id of the alias table the step
\* leaves, and, unless the step has just allocated it, of the table the step
\* found.
WriteTimeResolution ==
    [][ (pc = "label" /\ last' \in LabelBranches) =>
          \A i \in wr' :
             \/ data'[i] = 0
             \/ /\ data'[i] \in 1 .. Len(aliases')
                /\ aliases'[data'[i]] = data'[i]
                /\ last' # "new_region" =>
                      /\ data'[i] \in 1 .. Len(aliases)
                      /\ aliases[data'[i]] = data'[i]
      ]_vars

\* a pixel has just inherited from a North cell whose stored label had been
\* merged away: the value written is the alias, not the stored label
InheritedThroughAlias ==
    /\ last = "N"
    /\ \E i \in wr :
          /\ data[i - (w + 2)] > 0
          /\ data[i] # data[i - (w + 2)]
          /\ data[i] = aliases[data[i - (w + 2)]]

\* C14: no read before write.  The constructor leaves every cell off the
\* ring unwritten; a step of the labelling pass writes the cell of its pixel,
\* which was unwritten until then, and only reads ring cells or written cells
\* of pixels that precede its pixel in raster order; when the labelling pass
\* ends no cell is unwritten; and a step of the statistics pass reads a
\* written cell off the ring.
NoReadBeforeWrite ==
    [][ /\ last' = "koki_labelled_image_new" =>
              \A i \in DOMAIN data' : i \in Ring' \/ data'[i] = Undef
        /\ (pc = "label" /\ last' \in LabelBranches) =>
              /\ wr' = { CurIdx }
              /\ CurIdx \notin Ring
              /\ data[CurIdx] = Undef
              /\ data'[CurIdx] # Undef
              /\ \A i \in rd' :
                    /\ i \in DOMAIN data
                    /\ data[i] # Undef
                    /\ i \in Ring \/ i < CurIdx
        /\ (pc = "label" /\ pc' # "label") =>
              \A i \in DOMAIN data : data[i] # Undef
        /\ last' = "gather" =>
              \A i \in rd' : i \in DOMAIN data /\ i \notin Ring /\ data[i] # Undef
      ]_vars

\* a step has just read both a ring cell and a labelled cell of an earlier
\* pixel while later cells are still unwritten
ReadEarlierPixelAndRing ==
    /\ pc = "label"
    /\ last \in {"NE", "NW", "W", "NE_merge"}
    /\ \E i \in rd : i \notin Ring /\ data[i] > 0
    /\ \E i \in rd : i \in Ring
    /\ \E i \in DOMAIN data : data[i] = Undef

\* the scan stands on a foreground pixel none of whose N, NE, NW, W
\* neighbours is labelled
NewRegionCase ==
    /\ AtPixel
    /\ IsForeground(<<col, row>>)
    /\ data[NorthIdx] = 0
    /\ data[NorthEastIdx] = 0
    /\ data[NorthWestIdx] = 0
    /\ data[WestIdx] = 0

\* C15: alias table growth.  The constructor leaves the table empty and no
\* step shortens it.  A step from the new-region case appends one slot whose
\* value is its own index, old length + 1, an id that no slot and no cell
\* held, and gives the pixel that id; every other step leaves the length as
\* it was.
AliasTableGrowth ==
    [][ /\ last' = "koki_labelled_image_new" => aliases' = << >>
        /\ Len(aliases') >= Len(aliases)
        /\ NewRegionCase =>
              /\ aliases' = Append(aliases, Len(aliases) + 1)
              /\ data'[CurIdx] = Len(aliases) + 1
              /\ \A i \in DOMAIN aliases : aliases[i] # Len(aliases) + 1
              /\ \A i \in DOMAIN data : data[i] # Len(aliases) + 1
        /\ ~NewRegionCase => Len(aliases') = Len(aliases)
      ]_vars

\* a third region has just been allocated beside a class of two merged ids
ThirdRegionAllocated ==
    /\ last = "new_region"
    /\ Len(aliases) = 3
    /\ aliases[3] = 3
    /\ aliases[2] = 1
    /\ \E i \in wr : data[i] = 3

\* C16: the inductive adjacency invariant.  In every state any two visited
\* foreground pixels that are 8-adjacent resolve to the same canonical id
\* through the alias table as it stands.
AdjacentVisitedSameId ==
    pc \in {"label", "init_clips", "gather", "done"} =>
        LET seen == { p \in FG : Visited(p) } IN
        \A p \in seen : \A q \in seen :
            Adjacent8(p, q) => FinalId(p) # 0 /\ FinalId(p) = FinalId(q)

\* in the middle of the scan a pixel has just inherited from North alone,
\* while its West neighbour stores a different label of the same class
InheritedNorthBesideOtherLabel ==
    /\ pc = "label"
    /\ last = "N"
    /\ \E i \in DOMAIN data : data[i] = Undef
    /\ \E i \in wr :
          /\ data[i - 1] > 0
          /\ data[i - 1] # data[i - (w + 2)]
          /\ aliases[data[i - 1]] = aliases[data[i - (w + 2)]]

\* C17: index safety.  No assertion fails; every non-zero label stored in a
\* written cell is an index of the alias table; and once the clips are
\* allocated there are max_alias of them and the alias of every stored label
\* is an index of the clips.
IndexSafety ==
    /\ pc # "abort"
    /\ \A i \in DOMAIN data :
          (data[i] # Undef /\ data[i] # 0) =>
              /\ data[i] - 1 \in 0 .. Len(aliases) - 1
              /\ pc \in {"gather", "done"} =>
                    /\ Len(clips) = max_alias
                    /\ aliases[data[i]] - 1 \in 0 .. max_alias - 1

\* the statistics pass has just counted a pixel whose stored label is above
\* the number of clips, under its alias
CountedThroughAlias ==
    /\ pc = "gather"
    /\ last = "gather"
    /\ \E i \in rd :
          /\ data[i] > Len(clips)
          /\ aliases[data[i]] <= Len(clips)
          /\ clips[aliases[data[i]]].mass > 0

\* the provisional ids that resolve to the same canonical id as slot i
ClassOf(al, i) == { j \in 1 .. Len(al) : al[j] = al[i] }

\* C18: the canonical id is the class minimum.  After every step each slot
\* holds an id not above its own index, and that id is the smallest
\* provisional id of the slot's class; and no step raises the value of a
\* slot.
CanonicalIsClassMinimum ==
    [][ /\ \A i \in 1 .. Len(aliases') :
              /\ aliases'[i] <= i
              /\ aliases'[i] \in ClassOf(aliases', i)
              /\ \A j \in ClassOf(aliases', i) : aliases'[i] <= j
        /\ \A i \in 1 .. Len(aliases) :
              i \in DOMAIN aliases' /\ aliases'[i] <= aliases[i]
      ]_vars

\* a merge has just lowered slots to a canonical id that is not the lowest
\* of the table
MergedIntoSecondClass ==
    /\ last = "NE_merge"
    /\ rewritten # {}
    /\ \E c \in 2 .. Len(aliases) :
          /\ aliases[c] = c
          /\ \A i \in rewritten : aliases[i] = c /\ c < i
    /\ aliases[1] = 1

====
